---- MODULE Spec2Model ----
(***************************************************************************)
(* Model of the vllmd hypervisor daemon:                                   *)
(*   - HypervisorManager (hypervisor.rs): the VM lifecycle controller,     *)
(*     its configure/start/shutdown/info methods as operators over the     *)
(*     manager record, computed step by step as the code computes them;    *)
(*   - the start / stop / status commands of main.rs, the PID file and     *)
(*     the signal thread.                                                  *)
(* The virtualization backend (the vmm crate) and the operating system     *)
(* are outside the repository: the outcome of every call into them (a      *)
(* request sent on the API channel, an eventfd duplication or write, a     *)
(* thread join, a file operation) is an input chosen with \E.              *)
(***************************************************************************)
EXTENDS Integers, Sequences, FiniteSets, TLC

\* ---------------------------------------------------------------- bounds
\* longest device_paths list the inputs are drawn from
MaxDevices == 2
\* most worker threads launched and not yet joined that the model follows
MaxWorkers == 2

\* the filesystem paths the inputs are drawn from
Paths == {"/a", "/b"}

\* ------------------------------------------------------------ data model
VmState == {"Created", "Configured", "Running", "Paused", "Shutdown", "Error"}

NoConfig == [none |-> TRUE]

DeviceLists == UNION {[1..n -> Paths] : n \in 0..MaxDevices}

\* The request channels, named by the channel() call that makes them: the
\* one made in new(), the one made in the argument list of
\* start_vmm_thread in start(), and no channel at all.
ChannelOfNew == "channel@new"
ChannelOfStart == "channel@start"
NoChannel == "none"

\* HypervisorManager::new: Created, no configuration, no worker thread
\* handle, both progress flags false. api_sender is the sending end of the
\* channel made in new(), whose receiving end is dropped on the spot;
\* worker_receiver is the channel whose receiving end the worker thread
\* holds, none before a worker is launched.
NewManager ==
    [state |-> "Created", config |-> NoConfig, vmm_thread_handle |-> FALSE,
     vm_created |-> FALSE, vm_booted |-> FALSE,
     api_sender |-> ChannelOfNew, worker_receiver |-> NoChannel]

\* What a method call hands back: the manager after the call, the value
\* returned, the calls made into the backend and the OS in order, and the
\* worker threads launched / joined by the call.
Outcome(m, r, ev, sp, jn) ==
    [mgr |-> m, result |-> r, events |-> ev, spawned |-> sp, joined |-> jn]

Ev(what, ok) == [call |-> what, ok |-> ok]

\* ------------------------------------------------------------- configure
\* Path::new(p).exists() against the filesystem fs (the set of paths that
\* exist)
Exists(fs, p) == p \in fs

\* validate_config that looks at the first device path only
ValidateConfigFirstDeviceOnly(fs, config) ==
    IF ~Exists(fs, config.kernel_path) THEN "ConfigError"
    ELSE IF ~Exists(fs, config.system_image_path) THEN "ConfigError"
    ELSE IF ~Exists(fs, config.config_image_path) THEN "ConfigError"
    ELSE IF Len(config.device_paths) > 0 /\ ~Exists(fs, config.device_paths[1])
         THEN "ConfigError"
    ELSE "Ok"

\* validate_config: kernel, system image, config image, then every device
\* path in order; the first missing one is a ConfigError.
ValidateConfig(fs, config) ==
    IF ~Exists(fs, config.kernel_path) THEN "ConfigError"
    ELSE IF ~Exists(fs, config.system_image_path) THEN "ConfigError"
    ELSE IF ~Exists(fs, config.config_image_path) THEN "ConfigError"
    ELSE IF \E i \in 1..Len(config.device_paths) :
                ~Exists(fs, config.device_paths[i]) THEN "ConfigError"
    ELSE "Ok"

\* configure() that also accepts a manager that has been shut down
ConfigureStateOkOrShutdown(m) == m.state \in {"Created", "Shutdown"}

\* the state check that opens configure()
ConfigureStateOk(m) == m.state = "Created"

Configure(m, config, fs) ==
    IF ~ConfigureStateOk(m) THEN Outcome(m, "InvalidState", <<>>, 0, 0)
    ELSE IF ValidateConfig(fs, config) # "Ok"
         THEN Outcome(m, ValidateConfig(fs, config), <<>>, 0, 0)
    ELSE Outcome([m EXCEPT !.config = config, !.state = "Configured"],
                 "Ok", <<>>, 0, 0)

\* ----------------------------------------------------------------- start
\* The step of start() at which the environment makes it fail, if any:
\*   parse       ChVmConfig::parse rejects the parameters
\*   hypervisor  ch_hypervisor::new fails
\*   try_clone   one of the EventFd::try_clone()? calls fails
\*   spawn       vmm::start_vmm_thread fails
\*   unwrap      api_evt_clone.try_clone().unwrap() panics
\*   create      the VmCreate request returns an error
\*   boot        the VmBoot request returns an error
\*   none        every step succeeds
StartFailPoints ==
    {"parse", "hypervisor", "try_clone", "spawn", "unwrap", "create", "boot", "none"}

\* start() that also accepts a manager that has been shut down
StartStateOkOrShutdown(m) == m.state \in {"Configured", "Shutdown"}

\* the state check that opens start()
StartStateOk(m) == m.state = "Configured"

\* the manager once start_vmm_thread has returned a handle: the worker
\* was handed channel().1, the receiving end of a channel made for it
AfterSpawn(m) ==
    [m EXCEPT !.vmm_thread_handle = TRUE, !.worker_receiver = ChannelOfStart]

\* a start() that enters Running as soon as the VmCreate request succeeded
AfterCreateIsRunning(m) == [m EXCEPT !.vm_created = TRUE, !.state = "Running"]

\* the manager once the VmCreate request has succeeded
AfterCreate(m) == [m EXCEPT !.vm_created = TRUE]

\* a boot that leaves the VM paused
AfterBootIsPaused(m) == [m EXCEPT !.vm_booted = TRUE, !.state = "Paused"]

\* the manager once the VmBoot request has succeeded
AfterBoot(m) == [m EXCEPT !.vm_booted = TRUE, !.state = "Running"]

Start(m, fail) ==
    IF ~StartStateOk(m) THEN Outcome(m, "InvalidState", <<>>, 0, 0)
    ELSE IF m.config = NoConfig THEN Outcome(m, "InvalidState", <<>>, 0, 0)
    ELSE IF fail = "parse" THEN Outcome(m, "ParsingError", <<>>, 0, 0)
    ELSE IF fail = "hypervisor" THEN Outcome(m, "HypervisorError", <<>>, 0, 0)
    ELSE IF fail = "try_clone" THEN Outcome(m, "IoError", <<>>, 0, 0)
    ELSE IF fail = "spawn"
         THEN Outcome(m, "StartError", <<Ev("start_vmm_thread", FALSE)>>, 0, 0)
    ELSE LET spawn == <<Ev("start_vmm_thread", TRUE)>>
             m1 == AfterSpawn(m)
         IN IF fail = "unwrap" THEN Outcome(m1, "Panic", spawn, 1, 0)
            ELSE IF fail = "create"
                 THEN Outcome(m1, "ApiError",
                              spawn \o <<Ev("VmCreate", FALSE)>>, 1, 0)
            ELSE LET m2 == AfterCreate(m1)
                     created == spawn \o <<Ev("VmCreate", TRUE)>>
                 IN IF fail = "boot"
                    THEN Outcome(m2, "ApiError",
                                 created \o <<Ev("VmBoot", FALSE)>>, 1, 0)
                    ELSE Outcome(AfterBoot(m2), "Ok",
                                 created \o <<Ev("VmBoot", TRUE)>>, 1, 0)

\* -------------------------------------------------------------- shutdown
\* The environment's answers to the steps of shutdown():
\*   clone_ok     self.api_evt.try_clone() succeeds
\*   shutdown_ok  the VmShutdown request succeeds
\*   write_ok     exit_evt.write(1) succeeds
\*   join_ok      thread_handle.join() succeeds
\*   http         the worker handle's http_api_handle: "none", or the
\*                outcome of http_api_graceful_shutdown, "ok" / "err"
ShutdownEnv ==
    [clone_ok : BOOLEAN, shutdown_ok : BOOLEAN, write_ok : BOOLEAN,
     join_ok : BOOLEAN, http : {"none", "ok", "err"}]

\* shutdown() that tears down from every state but Shutdown
ShutdownStateOkUnlessShutdown(m) == m.state # "Shutdown"

\* shutdown() that treats a configured manager as running
ShutdownStateOkOrConfigured(m) == m.state \in {"Configured", "Running", "Paused"}

\* the state check that opens shutdown(): is there a running VM
ShutdownStateOk(m) == m.state \in {"Running", "Paused"}

\* a shutdown() that leaves the progress flags as they were
AfterShutdownKeepsFlags(m) == [m EXCEPT !.state = "Shutdown"]

\* the assignments that close shutdown()
AfterShutdown(m) ==
    [m EXCEPT !.state = "Shutdown", !.vm_created = FALSE, !.vm_booted = FALSE]

\* what a failed api_evt.try_clone() makes shutdown() return
ShutdownCloneFailed(m) == Outcome(m, "IoError", <<>>, 0, 0)

\* a teardown that gives up when the graceful shutdown request fails
TeardownStopsOnError(m, o) ==
    IF m.vm_booted /\ ~o.shutdown_ok THEN <<Ev("VmShutdown", FALSE)>>
    ELSE (IF m.vm_booted THEN <<Ev("VmShutdown", TRUE)>> ELSE <<>>)
         \o <<Ev("exit_evt.write", o.write_ok), Ev("join", o.join_ok)>>

\* The calls shutdown() makes once it holds the cloned api_evt: the
\* graceful request when boot had succeeded, then the write to exit_evt,
\* then the join of the worker thread and, when the handle carries an
\* HTTP API handle, its graceful shutdown. A failed call is logged and
\* the next one is made.
Teardown(m, o) ==
    LET graceful == IF m.vm_booted
                    THEN <<Ev("VmShutdown", o.shutdown_ok)>> ELSE <<>>
        exit == <<Ev("exit_evt.write", o.write_ok)>>
        join == <<Ev("join", o.join_ok)>>
        http == IF o.http = "none" THEN <<>>
                ELSE <<Ev("http_api_graceful_shutdown", o.http = "ok")>>
    IN graceful \o exit \o join \o http

Shutdown(m, o) ==
    IF ~ShutdownStateOk(m) THEN Outcome(m, "Ok", <<>>, 0, 0)
    ELSE IF ~m.vmm_thread_handle THEN Outcome(AfterShutdown(m), "Ok", <<>>, 0, 0)
    ELSE IF ~o.clone_ok THEN ShutdownCloneFailed(m)
    ELSE LET m1 == [m EXCEPT !.vmm_thread_handle = FALSE,
                             !.worker_receiver = NoChannel]
         IN Outcome(AfterShutdown(m1), "Ok", Teardown(m, o), 0, 1)

\* ------------------------------------------------------------------ info
InfoEnv == [clone_ok : BOOLEAN, info_ok : BOOLEAN]

\* info() that also queries a configured manager
InfoStateOkOrConfigured(m) == m.state \in {"Configured", "Running"}

\* the state check that opens info()
InfoStateOk(m) == m.state = "Running"

Info(m, o) ==
    IF ~InfoStateOk(m) THEN Outcome(m, "InvalidState", <<>>, 0, 0)
    ELSE IF ~o.clone_ok THEN Outcome(m, "IoError", <<>>, 0, 0)
    ELSE IF o.info_ok THEN Outcome(m, "Summary", <<Ev("VmInfo", TRUE)>>, 0, 0)
    ELSE Outcome(m, "ApiError", <<Ev("VmInfo", FALSE)>>, 0, 0)


\* ------------------------------------------------- PID file, main.rs
\* most start commands (process instances) the model follows
MaxRuns == 2

\* process identifiers given to the successive start commands
Pids == 1..MaxRuns

\* The PID file: absent, or present with its content. Content 0 stands for
\* text that pid_str.trim().parse::<u32>() rejects (the file just created
\* and still empty); content p > 0 is the decimal text of pid p, which
\* parse::<u32> reads back as p.
NoFile == [exists |-> FALSE, content |-> 0]
EmptyFile == [exists |-> TRUE, content |-> 0]
PidFileOf(p) == [exists |-> TRUE, content |-> p]

\* get_vm_pid with the content's parse error replaced by pid 0
GetVmPidUnparsedIsZero(file) == [ok |-> file.exists, pid |-> file.content]

\* get_vm_pid: Err when the file does not exist or does not parse, else
\* Ok(pid)
GetVmPid(file) ==
    IF ~file.exists THEN [ok |-> FALSE, pid |-> 0]
    ELSE IF file.content = 0 THEN [ok |-> FALSE, pid |-> 0]
    ELSE [ok |-> TRUE, pid |-> file.content]

\* The four places get_pid_file_path can name, in its order: the file in
\* $XDG_RUNTIME_DIR, in $HOME/.local/run/vllmd, in /var/run/vllmd, and
\* /var/tmp/vllmd-hypervisor.pid
PidLocations == <<"xdg", "home", "varrun", "vartmp">>

\* The directory a location's file lies in: it exists and files can be
\* created in it ("writable"), exists and they cannot ("readonly"), does not
\* exist and create_dir_all can make it ("missing") or cannot ("blocked")
DirStates == {"writable", "readonly", "missing", "blocked"}

\* std::fs::create_dir_all(dir): Ok and the directory exists afterwards,
\* unless it cannot be made
CreateDirAll(dirs, loc) ==
    IF dirs[loc] = "missing" THEN [ok |-> TRUE, dirs |-> [dirs EXCEPT ![loc] = "writable"]]
    ELSE [ok |-> dirs[loc] # "blocked", dirs |-> dirs]

\* get_pid_file_path: the first of XDG_RUNTIME_DIR set, HOME set (its run
\* directory is created, the result ignored), /var/run/vllmd an existing
\* directory; else the file in /var/tmp
GetPidFilePath(env, dirs) ==
    IF env.xdg_set THEN [path |-> "xdg", dirs |-> dirs]
    ELSE IF env.home_set THEN [path |-> "home", dirs |-> CreateDirAll(dirs, "home").dirs]
    ELSE IF dirs["varrun"] \in {"writable", "readonly"} THEN [path |-> "varrun", dirs |-> dirs]
    ELSE [path |-> "vartmp", dirs |-> dirs]

\* save_vm_pid on the path get_pid_file_path returned: the parent directory
\* is created when it does not exist, then File::create and write_all; each
\* failure is returned with `?`
SaveVmPid(path, dirs) ==
    LET made == IF dirs[path] \in {"missing", "blocked"} THEN CreateDirAll(dirs, path)
                ELSE [ok |-> TRUE, dirs |-> dirs]
    IN [ok |-> made.ok /\ made.dirs[path] = "writable", dirs |-> made.dirs]

\* ------------------------------------------------------------------ text
\* A &str is the sequence of its characters, each a one-character string.
DecimalDigits == <<"0", "1", "2", "3", "4", "5", "6", "7", "8", "9">>

\* char::is_digit(10)
IsDigit(c) == \E i \in 1..Len(DecimalDigits) : DecimalDigits[i] = c

\* char::to_digit(10) of a decimal digit
DigitValue(c) == (CHOOSE i \in 1..Len(DecimalDigits) : DecimalDigits[i] = c) - 1

\* char::is_alphabetic, on the characters descriptors are written with
IsAlphabetic(c) ==
    c \in {"a", "b", "c", "d", "e", "f", "g", "h", "i", "j", "k", "l", "m",
           "n", "o", "p", "q", "r", "s", "t", "u", "v", "w", "x", "y", "z",
           "A", "B", "C", "D", "E", "F", "G", "H", "I", "J", "K", "L", "M",
           "N", "O", "P", "Q", "R", "S", "T", "U", "V", "W", "X", "Y", "Z"}

\* char::is_whitespace
IsWhitespace(c) == c = " "

RECURSIVE TrimStart(_)
TrimStart(s) ==
    IF s # <<>> /\ IsWhitespace(Head(s)) THEN TrimStart(Tail(s)) ELSE s

RECURSIVE TrimEnd(_)
TrimEnd(s) ==
    IF s # <<>> /\ IsWhitespace(s[Len(s)]) THEN TrimEnd(SubSeq(s, 1, Len(s) - 1))
    ELSE s

\* str::trim
Trim(s) == TrimEnd(TrimStart(s))

RECURSIVE FindFrom(_, _, _)
FindFrom(s, c, i) ==
    IF i > Len(s) THEN 0 ELSE IF s[i] = c THEN i ELSE FindFrom(s, c, i + 1)

\* str::find(c): position of the first c in s, 0 when there is none
Find(s, c) == FindFrom(s, c, 1)

\* str::split(c), collected: the pieces between the separators, one piece
\* (the whole string, possibly empty) when there is no separator
RECURSIVE Split(_, _)
Split(s, c) ==
    LET i == Find(s, c)
    IN IF i = 0 THEN <<s>>
       ELSE <<SubSeq(s, 1, i - 1)>> \o Split(SubSeq(s, i + 1, Len(s)), c)

\* str::splitn(2, c), collected: split at the first separator only
SplitN2(s, c) ==
    LET i == Find(s, c)
    IN IF i = 0 THEN <<s>> ELSE <<SubSeq(s, 1, i - 1), SubSeq(s, i + 1, Len(s))>>

\* ------------------------------------------------------------------- u64
\* A u64 is kept as its digits in base 1024, least significant first: six
\* full limbs and a top limb of the remaining four bits.
U64Bits == 64
LimbBits == 10
LimbBase == 2^LimbBits
NumLimbs == (U64Bits + LimbBits - 1) \div LimbBits
TopLimbBase == 2^(U64Bits - (NumLimbs - 1) * LimbBits)

U64Zero == [i \in 1..NumLimbs |-> 0]

\* the count least significant limbs of n
RECURSIVE LimbsOf(_, _)
LimbsOf(n, count) ==
    IF count = 0 THEN <<>> ELSE <<n % LimbBase>> \o LimbsOf(n \div LimbBase, count - 1)

\* a number below 2^31 as a u64
U64Of(n) == LimbsOf(n, NumLimbs)

\* the limbs of a product that may exceed 64 bits fit a u64
FitsU64(wide) ==
    /\ wide[NumLimbs] < TopLimbBase
    /\ \A i \in (NumLimbs + 1)..Len(wide) : wide[i] = 0

\* the low 64 bits
WrapU64(wide) ==
    [i \in 1..NumLimbs |-> IF i = NumLimbs THEN wide[i] % TopLimbBase ELSE wide[i]]

\* v * 1024^k, all its limbs
TimesKibiPower(v, k) == [i \in 1..(NumLimbs + k) |-> IF i > k THEN v[i - k] ELSE 0]

\* the limbs of v * 10 + carry from limb i on, and the carry out of the top
RECURSIVE TimesTenFrom(_, _, _)
TimesTenFrom(v, carry, i) ==
    IF i > NumLimbs THEN <<carry>>
    ELSE LET t == v[i] * 10 + carry
         IN <<t % LimbBase>> \o TimesTenFrom(v, t \div LimbBase, i + 1)

\* v * 10 + d with the overflow check of u64::from_str
TimesTenPlus(v, d) ==
    LET wide == TimesTenFrom(v, d, 1)
    IN [ok |-> FitsU64(wide), value |-> SubSeq(wide, 1, NumLimbs)]

RECURSIVE ParseDigits(_, _)
ParseDigits(s, acc) ==
    IF s = <<>> THEN [ok |-> TRUE, value |-> acc]
    ELSE IF ~IsDigit(Head(s)) THEN [ok |-> FALSE, value |-> U64Zero]
    ELSE LET n == TimesTenPlus(acc, DigitValue(Head(s)))
         IN IF n.ok THEN ParseDigits(Tail(s), n.value)
            ELSE [ok |-> FALSE, value |-> U64Zero]

\* str::parse::<u64>: an optional '+', then one or more decimal digits whose
\* value fits 64 bits
ParseU64(s) ==
    LET t == IF s # <<>> /\ Head(s) = "+" THEN Tail(s) ELSE s
    IN IF t = <<>> THEN [ok |-> FALSE, value |-> U64Zero] ELSE ParseDigits(t, U64Zero)

\* ----------------------------------------------------- parse_memory_string
KeySize == <<"s", "i", "z", "e">>
KeyShared == <<"s", "h", "a", "r", "e", "d">>
KeyHugepages == <<"h", "u", "g", "e", "p", "a", "g", "e", "s">>

\* the values the shared and hugepages arms match
TrueTokens == {<<"o", "n">>, <<"t", "r", "u", "e">>, <<"y", "e", "s">>, <<"1">>}
FalseTokens == {<<"o", "f", "f">>, <<"f", "a", "l", "s", "e">>, <<"n", "o">>, <<"0">>}

NoMemoryConfig == [none |-> TRUE]

\* the MemoryConfig the function starts from: 16 * 1024 * 1024 * 1024 bytes,
\* not shared, no huge pages
InitialMemoryConfig ==
    [size |-> WrapU64(TimesKibiPower(U64Of(16), 3)), shared |-> FALSE,
     hugepages |-> FALSE, shared_memory_size |-> "None"]

\* what a call of parse_memory_string comes to: Ok(config), Err(..), or a
\* panic
ParseOk(config) == [kind |-> "Ok", config |-> config]
ParseErrDefaulted == ParseOk(InitialMemoryConfig)
ParseErr == [kind |-> "Err", config |-> NoMemoryConfig]
ParsePanic == [kind |-> "Panic", config |-> NoMemoryConfig]

\* the match on the last character of the size value: k for the multiplier
\* 1024^k, -1 for the arm that returns the error
SizeMultiplier(c) ==
    CASE c \in {"K", "k"} -> 1
      [] c \in {"M", "m"} -> 2
      [] c \in {"G", "g"} -> 3
      [] c \in {"T", "t"} -> 4
      [] IsDigit(c) -> 0
      [] OTHER -> -1

\* the "size" arm; overflow_checks: the build panics on an overflowing
\* multiplication (debug profile) instead of wrapping (release profile)
ParseSize(config, size_str, overflow_checks) ==
    IF size_str = <<>> THEN ParseErr
    ELSE LET c == size_str[Len(size_str)]
             k == SizeMultiplier(c)
             size_num == IF IsAlphabetic(c)
                         THEN ParseU64(SubSeq(size_str, 1, Len(size_str) - 1))
                         ELSE ParseU64(size_str)
             product == TimesKibiPower(size_num.value, k)
         IN IF k < 0 THEN ParseErr
            ELSE IF ~size_num.ok THEN ParseErr
            ELSE IF ~FitsU64(product) /\ overflow_checks THEN ParsePanic
            ELSE ParseOk([config EXCEPT !.size = WrapU64(product)])

\* the "shared" and "hugepages" arms
ParseFlag(config, field, value) ==
    IF value \in TrueTokens THEN ParseOk([config EXCEPT ![field] = TRUE])
    ELSE IF value \in FalseTokens THEN ParseOk([config EXCEPT ![field] = FALSE])
    ELSE ParseErr

\* the `_` arm with the warning replaced by an error return
UnknownOptionRejected(config) == ParseErr

\* the `_` arm: warn!("Unknown memory configuration option") and go on
UnknownOption(config) == ParseOk(config)

\* the body of the loop for one comma-separated part
ParsePart(config, part, overflow_checks) ==
    LET kv == SplitN2(part, "=")
    IN IF Len(kv) # 2 THEN ParseErr
       ELSE LET key == Trim(kv[1])
                value == Trim(kv[2])
            IN IF key = KeySize THEN ParseSize(config, value, overflow_checks)
               ELSE IF key = KeyShared THEN ParseFlag(config, "shared", value)
               ELSE IF key = KeyHugepages THEN ParseFlag(config, "hugepages", value)
               ELSE UnknownOption(config)

RECURSIVE ParseParts(_, _, _)
ParseParts(parts, config, overflow_checks) ==
    IF parts = <<>> THEN ParseOk(config)
    ELSE LET r == ParsePart(config, Head(parts), overflow_checks)
         IN IF r.kind = "Ok" THEN ParseParts(Tail(parts), r.config, overflow_checks)
            ELSE r

\* HypervisorManager::parse_memory_string
ParseMemoryString(memory_config, overflow_checks) ==
    ParseParts(Split(memory_config, ","), InitialMemoryConfig, overflow_checks)

\* ------------------------------------------------- memory descriptors
\* the decimal numeral of n, as u64::to_string writes it
RECURSIVE Decimal(_)
Decimal(n) ==
    IF n < 10 THEN <<DecimalDigits[n + 1]>>
    ELSE Decimal(n \div 10) \o <<DecimalDigits[(n % 10) + 1]>>

\* the text of a descriptor: its parts joined by commas
RECURSIVE Join(_)
Join(parts) ==
    IF parts = <<>> THEN <<>>
    ELSE IF Len(parts) = 1 THEN parts[1]
    ELSE parts[1] \o <<",">> \o Join(Tail(parts))

\* the part "key=value"
Pair(key, value) == key \o <<"=">> \o value

\* the numbers size values are written with: the two of the documented
\* examples and 2^24, whose product with 1024^4 is 2^64
SizeNumbers == {16, 512, 16777216}

UnitSuffixes ==
    {<<>>, <<"K">>, <<"k">>, <<"M">>, <<"m">>, <<"G">>, <<"g">>, <<"T">>, <<"t">>}

SizeValues == {Decimal(n) \o u : n \in SizeNumbers, u \in UnitSuffixes}

\* size values the grammar does not have: letters only, an unknown unit, a
\* unit without a number, nothing, a fraction
BadSizeValues ==
    {<<"a", "b", "c">>, <<"1", "6", "X">>, <<"G">>, <<>>, <<"1", ".", "5", "G">>}

BadFlagValues == {<<"m", "a", "y", "b", "e">>}

KeyFoo == <<"f", "o", "o">>
ValueBar == <<"b", "a", "r">>

\* the parts descriptors are put together from
DescriptorParts ==
    {Pair(KeySize, v) : v \in SizeValues \cup BadSizeValues}
    \cup {Pair(k, v) : k \in {KeyShared, KeyHugepages},
                       v \in TrueTokens \cup FalseTokens \cup BadFlagValues}
    \cup {Pair(KeyFoo, ValueBar), Pair(<<" ">> \o KeySize \o <<" ">>, <<" ", "1", "6", "G", " ">>)}
    \cup {KeySize, <<>>}

MaxParts == 2

Descriptors == UNION {[1..n -> DescriptorParts] : n \in 0..MaxParts}

NoParse == [kind |-> "none", config |-> NoMemoryConfig]

\* ------------------------------------------------ launch specifications
DEFAULT_CPU_COUNT == 4

\* DEFAULT_MEMORY_CONFIG, "size=16G,shared=on"
DEFAULT_MEMORY_CONFIG ==
    <<Pair(KeySize, Decimal(16) \o <<"G">>), Pair(KeyShared, <<"o", "n">>)>>

\* the variable is not set
Unset == <<"unset">>

\* what the CPU-count variable holds: nothing, "0", "abc", "256"
CpuCountTexts == {Unset, <<"0">>, <<"a", "b", "c">>, <<"2", "5", "6">>}

\* str::parse::<u8>
ParseU8(s) ==
    LET r == ParseU64(s)
    IN IF r.ok /\ (\A i \in 2..NumLimbs : r.value[i] = 0) /\ r.value[1] < 2^8
       THEN [ok |-> TRUE, value |-> r.value[1]]
       ELSE [ok |-> FALSE, value |-> 0]

\* HypervisorConfig::from_env, cpu_count: the variable parsed as u8,
\* DEFAULT_CPU_COUNT when it is not set or does not parse
CpuCountFromEnv(text) ==
    IF text = Unset THEN DEFAULT_CPU_COUNT
    ELSE IF ParseU8(text).ok THEN ParseU8(text).value ELSE DEFAULT_CPU_COUNT

CpuCounts == {CpuCountFromEnv(t) : t \in CpuCountTexts}

\* the MemoryConfig records launch specifications are given: those of
\* DEFAULT_MEMORY_CONFIG and of "size=0"
MemoryConfigs ==
    {ParseMemoryString(Join(d), FALSE).config :
        d \in {DEFAULT_MEMORY_CONFIG, <<Pair(KeySize, <<"0">>)>>}}

VmConfig ==
    [kernel_path : Paths, system_image_path : Paths, config_image_path : Paths,
     device_paths : DeviceLists, vcpu_count : CpuCounts,
     memory_config : MemoryConfigs]

\* what the start command has of the VmConfig after from_env: the paths
\* and the CPU count; the memory descriptor is not parsed yet
EnvConfigs ==
    [kernel_path : Paths, system_image_path : Paths, config_image_path : Paths,
     device_paths : DeviceLists, vcpu_count : CpuCounts,
     memory_config : {NoMemoryConfig}]

\* the memory descriptors the start command is run with:
\* DEFAULT_MEMORY_CONFIG (the variable is not set), "size=0" and "size=abc"
EnvDescriptors ==
    {DEFAULT_MEMORY_CONFIG, <<Pair(KeySize, <<"0">>)>>,
     <<Pair(KeySize, <<"a", "b", "c">>)>>}

\* HypervisorConfig::from_env, the path checks: every configured path must
\* exist
FromEnvPathsOk(fs, config) ==
    /\ Exists(fs, config.kernel_path)
    /\ Exists(fs, config.system_image_path)
    /\ Exists(fs, config.config_image_path)
    /\ \A i \in 1..Len(config.device_paths) : Exists(fs, config.device_paths[i])

\* the value of the manager variable before HypervisorManager::new has run
NoManager ==
    [state |-> "Unconstructed", config |-> NoConfig, vmm_thread_handle |-> FALSE,
     vm_created |-> FALSE, vm_booted |-> FALSE,
     api_sender |-> NoChannel, worker_receiver |-> NoChannel]

\* ----------------------------------------------------------------- state
VARIABLES
    fs,          \* the paths that exist on disk
    mgr,         \* the HypervisorManager
    alive,       \* FALSE once a panic has unwound the thread owning mgr
    workers,     \* worker threads launched and not joined
    last,        \* the last method call: name, argument, manager before, outcome
    pc,          \* position of the start command's main thread
    run,         \* start commands launched so far; the current one's pid
    vmConfig,    \* the VmConfig handed to configure(); the start command builds
                 \* it from its environment variables (NoConfig: one is unset)
    exit_signal, \* the AtomicBool shared by the signal thread and the main thread
    sigPending,  \* a handled signal is queued for the signal thread
    pidFile,     \* the PID file
    exitCode,    \* how the start command ended
    removed,     \* outcome of the start command's remove_file
    lastCmd,     \* the last stop / status command and what it did
    statusPc,    \* position of a status command in progress
    pidEnv,      \* XDG_RUNTIME_DIR / HOME set or not, and the directories as
                 \* the command found them
    pidDirs,     \* the directories as they are now
    pidPath,     \* the location get_pid_file_path returned
    pidSaved,    \* what save_vm_pid returned
    memoryParts,     \* the comma-separated parts of the memory descriptor
    overflowChecks,  \* the build panics on integer overflow
    parsed,          \* what parse_memory_string returned for the descriptor
    peer             \* a second start command's process using the same PID file

ctlVars == <<mgr, alive, workers, last>>
procVars == <<pc, run, vmConfig, exit_signal, sigPending, exitCode, removed>>
pidPathVars == <<pidEnv, pidDirs, pidPath, pidSaved>>
parseVars == <<memoryParts, overflowChecks, parsed>>
vars == <<fs, mgr, alive, workers, last, pc, run, vmConfig, exit_signal,
          sigPending, pidFile, exitCode, removed, lastCmd, statusPc, pidPathVars,
          parseVars, peer>>

NoCall ==
    [op |-> "none", arg |-> NoConfig, pre |-> NoManager, result |-> "none",
     events |-> <<>>]

NoCmd ==
    [cmd |-> "none", exit |-> "none", report |-> "none", signalled |-> 0,
     marker |-> NoFile, running |-> FALSE, kills |-> <<>>, unlink |-> "none"]

\* one kill(pid, sig) call of a command and whether it returned Ok
Kill(pid, sig, ok) == [pid |-> pid, sig |-> sig, ok |-> ok]

\* a method call on the manager: its outcome applied to the state
Call(op, arg, out) ==
    /\ workers + out.spawned <= MaxWorkers
    /\ mgr' = out.mgr
    /\ alive' = (out.result # "Panic")
    /\ workers' = workers + out.spawned - out.joined
    /\ last' = [op |-> op, arg |-> arg, pre |-> mgr, result |-> out.result,
                events |-> out.events]

\* ------------------------------------- the controller under any caller
\* One manager, called by a caller that makes any sequence of configure /
\* start / shutdown / info calls; the filesystem and the VmConfig the
\* caller passes are chosen at the start and range over all of them.
\* the start command's environment when nothing about the PID file's
\* location is examined: XDG_RUNTIME_DIR names a usable directory
\* no second start command
NoPeer == [pc |-> "idle", exitCode |-> "none"]

\* no memory descriptor is being parsed
ParseIdle == memoryParts = <<>> /\ overflowChecks = FALSE /\ parsed = NoParse

PidPathIdle ==
    /\ pidEnv = [xdg_set |-> TRUE, home_set |-> TRUE,
                 dirs |-> [l \in {"xdg", "home", "varrun", "vartmp"} |-> "writable"]]
    /\ pidDirs = pidEnv.dirs
    /\ pidPath = "none"
    /\ pidSaved = "none"

Init ==
    /\ peer = NoPeer
    /\ PidPathIdle
    /\ ParseIdle
    /\ fs \in SUBSET Paths
    /\ mgr = NewManager
    /\ alive = TRUE
    /\ workers = 0
    /\ last = NoCall
    /\ pc = "idle"
    /\ run = 0
    /\ vmConfig \in VmConfig
    /\ exit_signal = FALSE
    /\ sigPending = FALSE
    /\ pidFile = NoFile
    /\ exitCode = "none"
    /\ removed = "none"
    /\ lastCmd = NoCmd
    /\ statusPc = "idle"

CallConfigure ==
    /\ alive
    /\ Call("configure", vmConfig, Configure(mgr, vmConfig, fs))
    /\ UNCHANGED <<peer, parseVars, pidPathVars, fs, procVars, pidFile, lastCmd, statusPc>>

CallStart ==
    /\ alive
    /\ \E fail \in StartFailPoints : Call("start", NoConfig, Start(mgr, fail))
    /\ UNCHANGED <<peer, parseVars, pidPathVars, fs, procVars, pidFile, lastCmd, statusPc>>

CallShutdown ==
    /\ alive
    /\ \E o \in ShutdownEnv : Call("shutdown", NoConfig, Shutdown(mgr, o))
    /\ UNCHANGED <<peer, parseVars, pidPathVars, fs, procVars, pidFile, lastCmd, statusPc>>

CallInfo ==
    /\ alive
    /\ \E o \in InfoEnv : Call("info", NoConfig, Info(mgr, o))
    /\ UNCHANGED <<peer, parseVars, pidPathVars, fs, procVars, pidFile, lastCmd, statusPc>>

Next == CallConfigure \/ CallStart \/ CallShutdown \/ CallInfo

Spec == Init /\ [][Next]_vars

\* ------------------------------------ the start, stop, status commands
\* the start command's process exists
ProcessAlive == pc \notin {"idle", "exited"}

\* handlers that are registered only by the thread running the signal loop
HandlersInstalledByThread ==
    pc \in {"new", "configure", "start", "poll", "shutdown", "remove"}

\* Signals::new has registered the handlers for SIGTERM, SIGINT, SIGHUP
HandlersInstalled ==
    pc \in {"save_create", "save_write", "spawn", "new", "configure", "start",
            "poll", "shutdown", "remove"}

\* the thread running signals.forever() has been spawned
SignalThreadRunning ==
    pc \in {"new", "configure", "start", "poll", "shutdown", "remove"}

\* the start command's process ends
Exit(code) == pc' = "exited" /\ exitCode' = code

\* The start command's inputs range over every EnvConfigs record (or a
\* required variable not set) and every EnvDescriptors descriptor, on a
\* filesystem where one of the two paths exists and the other does not.
InitDaemon ==
    /\ peer = NoPeer
    /\ PidPathIdle
    /\ memoryParts \in EnvDescriptors
    /\ overflowChecks = FALSE
    /\ parsed = NoParse
    /\ fs = {"/a"}
    /\ mgr = NoManager
    /\ alive = TRUE
    /\ workers = 0
    /\ last = NoCall
    /\ pc = "idle"
    /\ run = 0
    /\ vmConfig \in EnvConfigs \cup {NoConfig}
    /\ exit_signal = FALSE
    /\ sigPending = FALSE
    /\ pidFile = NoFile
    /\ exitCode = "none"
    /\ removed = "none"
    /\ lastCmd = NoCmd
    /\ statusPc = "idle"

\* HypervisorConfig::from_env: Err when a required variable is not set or
\* a configured path does not exist
FromEnvOk(fsys, env) == env # NoConfig /\ FromEnvPathsOk(fsys, env)

\* main, CommandVerb::Start: a new process; HypervisorConfig::from_env()?
\* reads and checks the configuration, setup_logger(..)? sets logging up
\* (ok = FALSE: the log file cannot be created)
StartCommand ==
    /\ ~ProcessAlive
    /\ run < MaxRuns
    /\ run' = run + 1
    /\ mgr' = NoManager /\ alive' = TRUE /\ workers' = 0 /\ last' = NoCall
    /\ exit_signal' = FALSE /\ sigPending' = FALSE /\ removed' = "none"
    /\ \E ok \in BOOLEAN :
          IF ok /\ FromEnvOk(fs, vmConfig)
          THEN pc' = "signals" /\ exitCode' = "none"
          ELSE Exit("failure")
    /\ vmConfig' = IF vmConfig = NoConfig THEN NoConfig
                   ELSE [vmConfig EXCEPT !.memory_config = NoMemoryConfig]
    /\ parsed' = NoParse
    /\ UNCHANGED <<peer, memoryParts, overflowChecks, pidPathVars, fs, pidFile, lastCmd,
                   statusPc>>

\* start_hypervisor: Signals::new(&[SIGTERM, SIGINT, SIGHUP])?
InstallSignals ==
    /\ pc = "signals"
    /\ \E ok \in BOOLEAN : IF ok THEN pc' = "save_create" /\ UNCHANGED exitCode
                           ELSE Exit("failure")
    /\ UNCHANGED <<peer, parseVars, pidPathVars, fs, ctlVars, run, vmConfig, exit_signal, sigPending,
                   removed, pidFile, lastCmd, statusPc>>

\* save_vm_pid: create_dir_all and File::create, which truncates the file
SaveVmPidCreate ==
    /\ pc = "save_create"
    /\ \E ok \in BOOLEAN :
          IF ok THEN pc' = "save_write" /\ pidFile' = EmptyFile /\ UNCHANGED exitCode
          ELSE Exit("failure") /\ UNCHANGED pidFile
    /\ UNCHANGED <<peer, parseVars, pidPathVars, fs, ctlVars, run, vmConfig, exit_signal, sigPending,
                   removed, lastCmd, statusPc>>

\* save_vm_pid: file.write_all(pid.to_string().as_bytes()), through the
\* handle File::create returned: when the path was unlinked in between, the
\* bytes go to a file no path names any more
SaveVmPidWrite ==
    /\ pc = "save_write"
    /\ \E ok \in BOOLEAN :
          IF ok
          THEN /\ pc' = "spawn"
               /\ pidFile' = IF pidFile.exists THEN PidFileOf(run) ELSE pidFile
               /\ UNCHANGED exitCode
          ELSE Exit("failure") /\ UNCHANGED pidFile
    /\ UNCHANGED <<peer, parseVars, pidPathVars, fs, ctlVars, run, vmConfig, exit_signal, sigPending,
                   removed, lastCmd, statusPc>>

\* start_hypervisor: thread::spawn of the signal loop
SpawnSignalThread ==
    /\ pc = "spawn"
    /\ pc' = "new"
    /\ UNCHANGED <<peer, parseVars, pidPathVars, fs, ctlVars, run, vmConfig, exit_signal, sigPending,
                   exitCode, removed, pidFile, lastCmd, statusPc>>

\* start_hypervisor: HypervisorManager::new()? (ok = FALSE: an EventFd
\* cannot be created), parse_memory_string(&config.memory_config)?, and the
\* VmConfig built from the configuration and the parsed MemoryConfig
ConstructManager ==
    /\ pc = "new"
    /\ \E ok \in BOOLEAN :
          IF ~ok
          THEN Exit("failure") /\ UNCHANGED <<mgr, parsed, vmConfig>>
          ELSE LET r == ParseMemoryString(Join(memoryParts), overflowChecks)
               IN /\ mgr' = NewManager
                  /\ parsed' = r
                  /\ IF r.kind = "Ok"
                     THEN /\ vmConfig' = [vmConfig EXCEPT !.memory_config = r.config]
                          /\ pc' = "configure"
                          /\ UNCHANGED exitCode
                     ELSE /\ Exit(IF r.kind = "Panic" THEN "panic" ELSE "failure")
                          /\ UNCHANGED vmConfig
    /\ UNCHANGED <<peer, memoryParts, overflowChecks, pidPathVars, fs, alive, workers,
                   last, run, exit_signal, sigPending, removed, pidFile, lastCmd,
                   statusPc>>

\* start_hypervisor: hypervisor_manager.configure(vm_config)?
MainConfigure ==
    /\ pc = "configure"
    /\ LET out == Configure(mgr, vmConfig, fs)
       IN /\ Call("configure", vmConfig, out)
          /\ IF out.result = "Ok" THEN pc' = "start" /\ UNCHANGED exitCode
             ELSE Exit("failure")
    /\ UNCHANGED <<peer, parseVars, pidPathVars, fs, run, vmConfig, exit_signal, sigPending, removed,
                   pidFile, lastCmd, statusPc>>

\* start_hypervisor: hypervisor_manager.start()?
MainStart ==
    /\ pc = "start"
    /\ \E fail \in StartFailPoints :
          LET out == Start(mgr, fail)
          IN /\ Call("start", NoConfig, out)
             /\ IF out.result = "Ok" THEN pc' = "poll" /\ UNCHANGED exitCode
                ELSE IF out.result = "Panic" THEN Exit("panic")
                ELSE Exit("failure")
    /\ UNCHANGED <<peer, parseVars, pidPathVars, fs, run, vmConfig, exit_signal, sigPending, removed,
                   pidFile, lastCmd, statusPc>>

\* start_hypervisor: while !exit_signal.load(SeqCst) { sleep(100ms) }; the
\* loop is left once the flag is seen set
PollExitSignal ==
    /\ pc = "poll"
    /\ exit_signal
    /\ pc' = "shutdown"
    /\ UNCHANGED <<peer, parseVars, pidPathVars, fs, ctlVars, run, vmConfig, exit_signal, sigPending,
                   exitCode, removed, pidFile, lastCmd, statusPc>>

\* start_hypervisor: hypervisor_manager.shutdown()?
MainShutdown ==
    /\ pc = "shutdown"
    /\ \E o \in ShutdownEnv :
          LET out == Shutdown(mgr, o)
          IN /\ Call("shutdown", NoConfig, out)
             /\ IF out.result = "Ok" THEN pc' = "remove" /\ UNCHANGED exitCode
                ELSE Exit("failure")
    /\ UNCHANGED <<peer, parseVars, pidPathVars, fs, run, vmConfig, exit_signal, sigPending, removed,
                   pidFile, lastCmd, statusPc>>

\* start_hypervisor: handle.close(), remove_file(pid_file) with its error
\* only logged, Ok(())
RemovePidFile ==
    /\ pc = "remove"
    /\ \E ok \in BOOLEAN :
          IF ok /\ pidFile.exists
          THEN pidFile' = NoFile /\ removed' = "ok"
          ELSE UNCHANGED pidFile /\ removed' = "err"
    /\ Exit("success")
    /\ UNCHANGED <<peer, parseVars, pidPathVars, fs, ctlVars, run, vmConfig, exit_signal, sigPending,
                   lastCmd, statusPc>>

\* a signal reaches the start command's process: queued for the signal
\* thread once the handlers are installed, the default action (the process
\* is terminated) before that
Deliver ==
    IF HandlersInstalled
    THEN sigPending' = TRUE /\ UNCHANGED <<pc, exitCode>>
    ELSE Exit("killed") /\ UNCHANGED sigPending

\* SIGTERM, SIGINT or SIGHUP sent to the process from outside (a terminal,
\* an operator)
OperatorSignal ==
    /\ ProcessAlive
    /\ Deliver
    /\ UNCHANGED <<peer, parseVars, pidPathVars, fs, ctlVars, run, vmConfig, exit_signal, removed, pidFile,
                   lastCmd, statusPc>>

\* the signal thread: for sig in signals.forever() { exit_signal.store(true) }
SignalThread ==
    /\ ProcessAlive
    /\ SignalThreadRunning
    /\ sigPending
    /\ sigPending' = FALSE
    /\ exit_signal' = TRUE
    /\ UNCHANGED <<peer, parseVars, pidPathVars, fs, ctlVars, pc, run, vmConfig, exitCode, removed, pidFile,
                   lastCmd, statusPc>>

\* kill(pid, sig) finds a process to signal
KillFinds(pid) == ProcessAlive /\ pid = run

\* what stop_hypervisor returns when kill(pid, SIGTERM) fails
StopKillFailed == "failure"

\* stop_hypervisor
StopCommand ==
    /\ statusPc = "idle"
    /\ LET r == GetVmPid(pidFile)
           cmd == [cmd |-> "stop", marker |-> pidFile, running |-> ProcessAlive,
                   exit |-> "success", report |-> "none", signalled |-> 0,
                   kills |-> <<>>, unlink |-> "none"]
       IN IF ~r.ok
          THEN /\ lastCmd' = [cmd EXCEPT !.report = "No running hypervisor found"]
               /\ UNCHANGED <<pc, exitCode, sigPending>>
          ELSE IF KillFinds(r.pid)
               THEN /\ lastCmd' = [cmd EXCEPT !.signalled = r.pid,
                                              !.report = "SIGTERM sent",
                                              !.kills = <<Kill(r.pid, "SIGTERM", TRUE)>>]
                    /\ Deliver
               ELSE /\ lastCmd' = [cmd EXCEPT !.exit = StopKillFailed,
                                              !.report = "Failed to send SIGTERM",
                                              !.kills = <<Kill(r.pid, "SIGTERM", FALSE)>>]
                    /\ UNCHANGED <<pc, exitCode, sigPending>>
    /\ UNCHANGED <<peer, parseVars, pidPathVars, fs, ctlVars, run, vmConfig, exit_signal, removed, pidFile,
                   statusPc>>

\* check_hypervisor_status, the match on the probe: only the Err arm goes
\* on to remove_file
StatusRemovesAlways(probeOk) == TRUE

StatusRemoves(probeOk) == ~probeOk

\* check_hypervisor_status up to the report: get_vm_pid, the SIGCONT probe,
\* println
StatusCommand ==
    /\ statusPc = "idle"
    /\ LET r == GetVmPid(pidFile)
           cmd == [cmd |-> "status", marker |-> pidFile, running |-> ProcessAlive,
                   exit |-> "success", report |-> "none", signalled |-> 0,
                   kills |-> <<>>, unlink |-> "none"]
       IN IF ~r.ok
          THEN lastCmd' = [cmd EXCEPT !.report = "Not running"]
               /\ UNCHANGED statusPc
          ELSE LET found == KillFinds(r.pid)
               IN /\ lastCmd' =
                       [cmd EXCEPT !.report = IF found THEN "Running"
                                              ELSE "Not running (stale PID file)",
                                   !.signalled = IF found THEN r.pid ELSE 0,
                                   !.kills = <<Kill(r.pid, "SIGCONT", found)>>]
                  /\ statusPc' = IF StatusRemoves(found) THEN "remove" ELSE "idle"
    /\ UNCHANGED <<peer, parseVars, pidPathVars, fs, ctlVars, procVars, pidFile>>

\* check_hypervisor_status, the stale branch: remove_file(pid_file) with its
\* error only logged
StatusRemoveStale ==
    /\ statusPc = "remove"
    /\ statusPc' = "idle"
    /\ \E ok \in BOOLEAN :
          IF ok /\ pidFile.exists
          THEN pidFile' = NoFile /\ lastCmd' = [lastCmd EXCEPT !.unlink = "ok"]
          ELSE UNCHANGED pidFile /\ lastCmd' = [lastCmd EXCEPT !.unlink = "err"]
    /\ UNCHANGED <<peer, parseVars, pidPathVars, fs, ctlVars, procVars>>

NextDaemon ==
    \/ StartCommand \/ InstallSignals \/ SaveVmPidCreate \/ SaveVmPidWrite
    \/ SpawnSignalThread \/ ConstructManager \/ MainConfigure \/ MainStart
    \/ PollExitSignal \/ MainShutdown \/ RemovePidFile
    \/ OperatorSignal \/ SignalThread
    \/ StopCommand \/ StatusCommand \/ StatusRemoveStale

SpecDaemon == InitDaemon /\ [][NextDaemon]_vars

\* ------------------------------- two start commands, one PID file
\* A second start command runs at the same time as the first and
\* get_pid_file_path gives both the same path. Its process is followed
\* through the steps of start_hypervisor that touch the PID file; its
\* controller is not followed, only whether the calls in between succeed.

\* the second process's identifier, different from every pid of the first
PeerPid == MaxRuns + 1

\* main, CommandVerb::Start, and Signals::new(..)? in the second process
PeerStart ==
    /\ peer.pc = "idle"
    /\ \E ok \in BOOLEAN :
          peer' = IF ok THEN [peer EXCEPT !.pc = "save_create"]
                  ELSE [pc |-> "exited", exitCode |-> "failure"]
    /\ UNCHANGED <<parseVars, pidPathVars, fs, ctlVars, procVars, pidFile, lastCmd,
                   statusPc>>

\* save_vm_pid in the second process: File::create truncates the file the
\* path names, or creates it
PeerSaveVmPidCreate ==
    /\ peer.pc = "save_create"
    /\ \E ok \in BOOLEAN :
          IF ok THEN /\ peer' = [peer EXCEPT !.pc = "save_write"]
                     /\ pidFile' = EmptyFile
          ELSE /\ peer' = [pc |-> "exited", exitCode |-> "failure"]
               /\ UNCHANGED pidFile
    /\ UNCHANGED <<parseVars, pidPathVars, fs, ctlVars, procVars, lastCmd, statusPc>>

\* save_vm_pid in the second process: write_all through the handle
PeerSaveVmPidWrite ==
    /\ peer.pc = "save_write"
    /\ \E ok \in BOOLEAN :
          IF ok THEN /\ peer' = [peer EXCEPT !.pc = "start"]
                     /\ pidFile' = IF pidFile.exists THEN PidFileOf(PeerPid)
                                   ELSE pidFile
          ELSE /\ peer' = [pc |-> "exited", exitCode |-> "failure"]
               /\ UNCHANGED pidFile
    /\ UNCHANGED <<parseVars, pidPathVars, fs, ctlVars, procVars, lastCmd, statusPc>>

\* the second process from the spawn of its signal thread to the return of
\* hypervisor_manager.start()?: any of new, parse_memory_string, configure
\* and start can fail, and the process then exits with its marker in place
PeerBringUp ==
    /\ peer.pc = "start"
    /\ \E ok \in BOOLEAN :
          peer' = IF ok THEN [peer EXCEPT !.pc = "poll"]
                  ELSE [pc |-> "exited", exitCode |-> "failure"]
    /\ UNCHANGED <<parseVars, pidPathVars, fs, ctlVars, procVars, pidFile, lastCmd,
                   statusPc>>

\* the second process has seen its exit flag set: hypervisor_manager
\* .shutdown()?, whose error ends the process before remove_file
PeerShutdown ==
    /\ peer.pc = "poll"
    /\ \E ok \in BOOLEAN :
          peer' = IF ok THEN [peer EXCEPT !.pc = "remove"]
                  ELSE [pc |-> "exited", exitCode |-> "failure"]
    /\ UNCHANGED <<parseVars, pidPathVars, fs, ctlVars, procVars, pidFile, lastCmd,
                   statusPc>>

\* the second process: handle.close(), remove_file(pid_file) with its
\* error only logged, Ok(())
PeerRemovePidFile ==
    /\ peer.pc = "remove"
    /\ \E ok \in BOOLEAN :
          pidFile' = IF ok /\ pidFile.exists THEN NoFile ELSE pidFile
    /\ peer' = [pc |-> "exited", exitCode |-> "success"]
    /\ UNCHANGED <<parseVars, pidPathVars, fs, ctlVars, procVars, lastCmd, statusPc>>

\* the second process is past save_vm_pid and has not reached remove_file
PeerRunning == peer.pc \in {"start", "poll", "remove"}

\* The first start command is launched once, with an environment
\* from_env accepts, and runs next to the second; signals reach it from
\* outside.
InitTwoStarts ==
    /\ InitDaemon
    /\ FromEnvOk(fs, vmConfig)
    /\ vmConfig.vcpu_count = DEFAULT_CPU_COUNT
    /\ memoryParts = DEFAULT_MEMORY_CONFIG

NextTwoStarts ==
    \/ (run = 0 /\ StartCommand)
    \/ InstallSignals \/ SaveVmPidCreate \/ SaveVmPidWrite
    \/ SpawnSignalThread \/ ConstructManager \/ MainConfigure \/ MainStart
    \/ PollExitSignal \/ MainShutdown \/ RemovePidFile
    \/ OperatorSignal \/ SignalThread
    \/ PeerStart \/ PeerSaveVmPidCreate \/ PeerSaveVmPidWrite
    \/ PeerBringUp \/ PeerShutdown \/ PeerRemovePidFile

SpecTwoStarts == InitTwoStarts /\ [][NextTwoStarts]_vars

\* ------------------------------------------- where the PID file is put
\* One start command's choice of the PID file's location and its
\* save_vm_pid, over every combination of the two variables being set and
\* of the states of the four directories.
daemonVars == <<fs, ctlVars, procVars, pidFile, lastCmd, statusPc>>

PidEnvs ==
    {e \in [xdg_set : BOOLEAN, home_set : BOOLEAN,
            dirs : [{"xdg", "home", "varrun", "vartmp"} -> DirStates]] :
        /\ (~e.xdg_set => e.dirs["xdg"] = "missing")
        /\ (~e.home_set => e.dirs["home"] = "missing")
        /\ e.dirs["vartmp"] \in {"writable", "readonly"}}

InitPidPath ==
    /\ peer = NoPeer
    /\ fs = {}
    /\ mgr = NoManager
    /\ alive = TRUE
    /\ workers = 0
    /\ last = NoCall
    /\ pc = "save_create"
    /\ run = 1
    /\ vmConfig = NoConfig
    /\ exit_signal = FALSE
    /\ sigPending = FALSE
    /\ pidFile = NoFile
    /\ exitCode = "none"
    /\ removed = "none"
    /\ lastCmd = NoCmd
    /\ statusPc = "idle"
    /\ ParseIdle
    /\ pidEnv \in PidEnvs
    /\ pidDirs = pidEnv.dirs
    /\ pidPath = "none"
    /\ pidSaved = "none"

\* save_vm_pid: let pid_file = get_pid_file_path()
CallGetPidFilePath ==
    /\ pidPath = "none"
    /\ LET r == GetPidFilePath(pidEnv, pidDirs)
       IN pidPath' = r.path /\ pidDirs' = r.dirs
    /\ UNCHANGED <<peer, parseVars, daemonVars, pidEnv, pidSaved>>

\* save_vm_pid: the rest of it
CallSaveVmPid ==
    /\ pidPath # "none"
    /\ pidSaved = "none"
    /\ LET r == SaveVmPid(pidPath, pidDirs)
       IN /\ pidSaved' = IF r.ok THEN "Ok" ELSE "Err"
          /\ pidDirs' = r.dirs
          /\ pidFile' = IF r.ok THEN PidFileOf(run) ELSE pidFile
          /\ IF r.ok THEN pc' = "spawn" /\ UNCHANGED exitCode ELSE Exit("failure")
    /\ UNCHANGED <<peer, parseVars, fs, ctlVars, run, vmConfig, exit_signal, sigPending,
                   removed, lastCmd, statusPc, pidEnv, pidPath>>

NextPidPath == CallGetPidFilePath \/ CallSaveVmPid

SpecPidPath == InitPidPath /\ [][NextPidPath]_vars

\* ------------------------------------------ parsing memory descriptors
\* parse_memory_string called once on each descriptor of up to MaxParts
\* parts, in a build with and in one without overflow checks.
InitParse ==
    /\ peer = NoPeer
    /\ fs = {}
    /\ mgr = NewManager
    /\ alive = TRUE
    /\ workers = 0
    /\ last = NoCall
    /\ pc = "idle"
    /\ run = 0
    /\ vmConfig = NoConfig
    /\ exit_signal = FALSE
    /\ sigPending = FALSE
    /\ pidFile = NoFile
    /\ exitCode = "none"
    /\ removed = "none"
    /\ lastCmd = NoCmd
    /\ statusPc = "idle"
    /\ PidPathIdle
    /\ memoryParts \in Descriptors
    /\ overflowChecks \in BOOLEAN
    /\ parsed = NoParse

CallParseMemoryString ==
    /\ parsed = NoParse
    /\ parsed' = ParseMemoryString(Join(memoryParts), overflowChecks)
    /\ UNCHANGED <<peer, daemonVars, pidPathVars, memoryParts, overflowChecks>>

NextParse == CallParseMemoryString

SpecParse == InitParse /\ [][NextParse]_vars

\* ---------------------------------------------------------------- claims
\* the call `what` appears among the calls ev made into the backend / OS
Sent(ev, what) == \E i \in 1..Len(ev) : ev[i].call = what

\* the call `what` appears in ev with outcome ok
SentWith(ev, what, ok) == \E i \in 1..Len(ev) : ev[i] = Ev(what, ok)

\* C1: configure() outside Created and start() outside Configured fail with
\* InvalidState, leave the whole manager (state, stored specification, both
\* flags, worker handle) as it was and make no call into the backend.
C1_OutOfSequenceRejected ==
    ((last.op = "configure" /\ last.pre.state # "Created")
        \/ (last.op = "start" /\ last.pre.state # "Configured"))
    => /\ last.result = "InvalidState"
       /\ mgr = last.pre
       /\ last.events = <<>>

\* C1 witness: configure() was called on a running manager
C1_Witness == last.op = "configure" /\ last.pre.state = "Running"

\* C2 (as claimed): shutdown() called in Running or Paused returns success
\* and ends in Shutdown whichever of its steps fail.
C2_ShutdownAlwaysReachesShutdown ==
    (last.op = "shutdown" /\ last.pre.state \in {"Running", "Paused"})
    => (last.result = "Ok" /\ mgr.state = "Shutdown")

\* C3 (as claimed): when the create request fails, start() returns ApiError,
\* sends no boot request, stays Configured and has both flags false.
C3_CreateFailureLeavesNothing ==
    (last.op = "start" /\ SentWith(last.events, "VmCreate", FALSE))
    => /\ last.result = "ApiError"
       /\ ~Sent(last.events, "VmBoot")
       /\ mgr.state = "Configured"
       /\ ~mgr.vm_created
       /\ ~mgr.vm_booted

C5_ShutdownNoOp ==
    [][(last'.op = "shutdown" /\ mgr.state \notin {"Running", "Paused"})
        => /\ last'.result = "Ok"
           /\ mgr' = mgr
           /\ last'.events = <<>>
           /\ workers' = workers
           /\ pidFile' = pidFile]_vars

\* C5 witness: a second shutdown() directly after one that tore a running
\* VM down
C5_Witness ==
    last.op = "shutdown" /\ last.pre.state = "Shutdown" /\ mgr.state = "Shutdown"

\* C6: once the state is Shutdown no call changes it, and configure, start
\* and info all fail with InvalidState.
C6_ShutdownIsFinal ==
    [][mgr.state = "Shutdown"
        => /\ mgr'.state = "Shutdown"
           /\ (last'.op \in {"configure", "start", "info"}
                 => last'.result = "InvalidState")]_vars

\* C6 witness: start() was called on a manager that had been shut down
C6_Witness == last.op = "start" /\ last.pre.state = "Shutdown"

\* every path the specification refers to exists
AllPathsExist(config) ==
    {config.kernel_path, config.system_image_path, config.config_image_path}
        \cup {config.device_paths[i] : i \in 1..Len(config.device_paths)} \subseteq fs

\* C7: configure(spec) in Created stores spec and moves to Configured when
\* every path of spec exists; otherwise it returns an error and leaves the
\* manager (nothing stored, state Created) as it was.
C7_ConfigureValidates ==
    (last.op = "configure" /\ last.pre.state = "Created")
    => IF AllPathsExist(last.arg)
       THEN /\ last.result = "Ok"
            /\ mgr = [last.pre EXCEPT !.config = last.arg, !.state = "Configured"]
       ELSE /\ last.result \notin {"Ok", "InvalidState"}
            /\ mgr = last.pre
            /\ mgr.config = NoConfig

\* C7 witness: a specification whose only missing path is its second
\* device was rejected
C7_Witness ==
    /\ last.op = "configure" /\ last.pre.state = "Created"
    /\ Len(last.arg.device_paths) = 2
    /\ last.arg.device_paths[1] \in fs
    /\ last.arg.device_paths[2] \notin fs
    /\ last.result = "ConfigError"

\* C8: info() queries the backend only in Running, returns the summary
\* when the query succeeds and ApiError when it fails, fails with
\* InvalidState and sends nothing in every other state, and never changes
\* the manager.
C8_InfoContract ==
    last.op = "info"
    => /\ mgr = last.pre
       /\ (Sent(last.events, "VmInfo") => last.pre.state = "Running")
       /\ (SentWith(last.events, "VmInfo", TRUE) => last.result = "Summary")
       /\ (SentWith(last.events, "VmInfo", FALSE) => last.result = "ApiError")
       /\ (last.result = "Summary" => SentWith(last.events, "VmInfo", TRUE))
       /\ (last.pre.state # "Running"
             => last.result = "InvalidState" /\ last.events = <<>>)

\* C8 witness: a query sent in Running failed
C8_Witness ==
    last.op = "info" /\ last.pre.state = "Running" /\ last.result = "ApiError"

\* C9 (as claimed): a started instance whose VM reached Running and that
\* saw the exit flag set invokes shutdown(), then attempts to remove the
\* PID file, and the start command returns success. Stated on the final
\* state of the start command: once it has ended after calling shutdown(),
\* it ended in success with the removal attempted.
C9_SignalledInstanceExitsCleanly ==
    (pc = "exited" /\ exit_signal /\ last.op = "shutdown"
        /\ last.pre.state = "Running")
    => (exitCode = "success" /\ removed # "none")

\* C10 (as claimed): the stop command succeeds whenever no instance is
\* running, a stale PID file included.
C10_StopSucceedsWhenNotRunning ==
    (lastCmd.cmd = "stop" /\ ~lastCmd.running) => lastCmd.exit = "success"

\* the marker file holds a decimal process id
HoldsPid(file) == file.exists /\ file.content \in Pids

\* the step is a stop (status) command's first step
IsCommandStep(c) == lastCmd'.cmd = c /\ lastCmd' # lastCmd /\ lastCmd'.unlink = "none"

\* C11 (as claimed): stop with no marker reports that nothing is running,
\* sends no signal and succeeds; with a marker present it sends exactly one
\* SIGTERM, to the recorded PID.
C11_StopSignalsWheneverMarkerPresent ==
    lastCmd.cmd = "stop"
    => IF ~lastCmd.marker.exists
       THEN /\ lastCmd.report = "No running hypervisor found"
            /\ lastCmd.kills = <<>>
            /\ lastCmd.exit = "success"
       ELSE /\ Len(lastCmd.kills) = 1
            /\ lastCmd.kills[1].pid = lastCmd.marker.content
            /\ lastCmd.kills[1].sig = "SIGTERM"

\* C11 (amended): stop with a marker that is absent or does not hold a PID
\* reports that nothing is running, makes no kill call and succeeds; with a
\* marker holding PID n it makes exactly one call kill(n, SIGTERM), which
\* reaches the target exactly when that call succeeds, and returns without
\* waiting for the target to exit. In every case the step leaves the marker
\* as it found it.
C11_StopContract ==
    /\ [](lastCmd.cmd = "stop"
          => IF ~HoldsPid(lastCmd.marker)
             THEN /\ lastCmd.report = "No running hypervisor found"
                  /\ lastCmd.kills = <<>>
                  /\ lastCmd.signalled = 0
                  /\ lastCmd.exit = "success"
             ELSE /\ Len(lastCmd.kills) = 1
                  /\ lastCmd.kills[1].pid = lastCmd.marker.content
                  /\ lastCmd.kills[1].sig = "SIGTERM"
                  /\ lastCmd.signalled =
                        (IF lastCmd.kills[1].ok THEN lastCmd.marker.content ELSE 0))
    /\ [][IsCommandStep("stop")
          => /\ pidFile' = pidFile
             /\ lastCmd'.marker = pidFile
             /\ (lastCmd'.signalled # 0 /\ HandlersInstalled => ProcessAlive')]_vars

\* C11 witness: stop found a marker holding a PID, signalled that process
\* and has returned while the process is still there and the marker intact
C11_Witness ==
    /\ lastCmd.cmd = "stop"
    /\ HoldsPid(lastCmd.marker)
    /\ lastCmd.signalled = lastCmd.marker.content
    /\ ProcessAlive
    /\ pidFile = lastCmd.marker

\* C12 (as claimed): status succeeds and reports "Not running" with no
\* marker, "Running" with the marker's PID when the probe succeeds, both
\* without touching the marker, and "Not running (stale PID file)" when
\* the probe fails, in which case the marker is deleted.
C12_StaleMarkerAlwaysDeleted ==
    (lastCmd.cmd = "status" /\ statusPc = "idle")
    => /\ lastCmd.exit = "success"
       /\ lastCmd.report \in {"Not running", "Running", "Not running (stale PID file)"}
       /\ (~lastCmd.marker.exists => lastCmd.report = "Not running")
       /\ (lastCmd.report = "Running" => lastCmd.unlink = "none")
       /\ (lastCmd.report = "Not running (stale PID file)" => lastCmd.unlink = "ok")

\* C12 (amended): status succeeds and reports exactly one of: "Not
\* running" when the marker is absent or holds no PID (marker untouched);
\* "Running" with PID n when the marker holds n and the probe kill(n,
\* SIGCONT) succeeds (marker untouched); "Not running (stale PID file)" when
\* the probe fails, in which case it calls remove_file on the marker, whose
\* failure is only logged: the marker is gone when the removal succeeds and
\* kept when it fails. No step of status changes the marker otherwise.
C12_StatusContract ==
    /\ []((lastCmd.cmd = "status" /\ statusPc = "idle")
          => /\ lastCmd.exit = "success"
             /\ IF ~HoldsPid(lastCmd.marker)
                THEN /\ lastCmd.report = "Not running"
                     /\ lastCmd.kills = <<>>
                     /\ lastCmd.unlink = "none"
                ELSE /\ lastCmd.kills = <<Kill(lastCmd.marker.content, "SIGCONT",
                                               lastCmd.kills[1].ok)>>
                     /\ IF lastCmd.kills[1].ok
                        THEN /\ lastCmd.report = "Running"
                             /\ lastCmd.signalled = lastCmd.marker.content
                             /\ lastCmd.unlink = "none"
                        ELSE /\ lastCmd.report = "Not running (stale PID file)"
                             /\ lastCmd.unlink \in {"ok", "err"})
    /\ [][IsCommandStep("status") => pidFile' = pidFile /\ lastCmd'.marker = pidFile]_vars
    /\ [][statusPc = "remove"
          => /\ lastCmd.report = "Not running (stale PID file)"
             /\ (lastCmd'.unlink = "ok" => ~pidFile'.exists)
             /\ (lastCmd'.unlink = "err" => pidFile' = pidFile)]_vars

\* C12 witness: status reported a stale marker, its remove_file failed and
\* the marker is still there
C12_Witness ==
    /\ lastCmd.cmd = "status"
    /\ statusPc = "idle"
    /\ lastCmd.report = "Not running (stale PID file)"
    /\ lastCmd.unlink = "err"
    /\ pidFile = lastCmd.marker

\* the start command has finished save_vm_pid and not yet reached its own
\* remove_file
MarkerStepsDone == pc \in {"spawn", "new", "configure", "start", "poll", "shutdown"}

\* C13 (as claimed): however a status command interleaves with a start
\* command on the same marker, once the start command has written its PID
\* and the status command has finished, the live instance has a marker
\* holding its PID.
C13_StatusRaceHarmless ==
    (MarkerStepsDone /\ statusPc = "idle") => pidFile = PidFileOf(run)

\* C14 (as claimed): the start command writes its PID marker before start()
\* sends a create or boot request; when start() fails the command exits
\* with an error and the marker, holding its PID, is still there; a status
\* command that then finds it reports "Not running (stale PID file)" and
\* calls remove_file on it.
C14_FailedStartLeavesStaleMarker ==
    /\ [][(pc = "start" /\ pc' = "exited")
          => /\ last'.op = "start" /\ last'.result # "Ok"
             /\ exitCode' \in {"failure", "panic"}
             /\ pidFile' = PidFileOf(run)]_vars
    /\ []((lastCmd.cmd = "status" /\ statusPc = "idle" /\ ~lastCmd.running
             /\ HoldsPid(lastCmd.marker))
          => /\ lastCmd.report = "Not running (stale PID file)"
             /\ lastCmd.unlink # "none")

\* a location is usable as the claim has it: its variable is set (for the
\* two that have one) and its directory exists and is writable; the home
\* fallback's directory is created when absent
Usable(env, loc) ==
    CASE loc = "xdg" -> env.xdg_set /\ env.dirs[loc] = "writable"
      [] loc = "home" -> env.home_set /\ env.dirs[loc] \in {"writable", "missing"}
      [] OTHER -> env.dirs[loc] = "writable"

\* the first usable location in the probing order
FirstUsable(env) ==
    PidLocations[CHOOSE i \in 1..Len(PidLocations) :
                    /\ Usable(env, PidLocations[i])
                    /\ \A j \in 1..(i - 1) : ~Usable(env, PidLocations[j])]

\* C15 (as claimed): the marker goes to the first location, in the order
\* runtime-dir variable, home fallback, system runtime directory, temporary
\* location, that is usable; an unusable higher-priority location only
\* degrades to the next one and save_vm_pid returns no error.
C15_UnusableLocationDegrades ==
    (pidSaved # "none" /\ \E l \in {"xdg", "home", "varrun", "vartmp"} : Usable(pidEnv, l))
    => (pidPath = FirstUsable(pidEnv) /\ pidSaved = "Ok")

\* ---- the descriptor grammar as the claims state it
\* the part has no '='
LacksEquals(part) == \A i \in 1..Len(part) : part[i] # "="

\* k for the unit suffix of 1024^k
UnitPower(u) ==
    CASE u = <<>> -> 0
      [] u \in {<<"K">>, <<"k">>} -> 1
      [] u \in {<<"M">>, <<"m">>} -> 2
      [] u \in {<<"G">>, <<"g">>} -> 3
      [] u \in {<<"T">>, <<"t">>} -> 4

\* the part is "size=<n><unit>" with digits n and a unit K/M/G/T in either
\* case, or none
IsSizePair(part) ==
    \E n \in SizeNumbers, u \in UnitSuffixes : part = Pair(KeySize, Decimal(n) \o u)

\* the part is "<key>=<token>" with one of the eight recognized tokens
IsFlagPair(part, key) == \E v \in TrueTokens \cup FalseTokens : part = Pair(key, v)

IsUnknownPair(part) == part = Pair(KeyFoo, ValueBar)

WellFormedPair(part) ==
    IsSizePair(part) \/ IsFlagPair(part, KeyShared) \/ IsFlagPair(part, KeyHugepages)
        \/ IsUnknownPair(part)

\* a number of any size as limbs, padded to a common length
Widen(w) == [i \in 1..(NumLimbs + 4) |-> IF i <= Len(w) THEN w[i] ELSE 0]

\* n * 1024^k for the size pair, as a number of any size
SizeOfPair(part) ==
    LET nu == CHOOSE nu \in SizeNumbers \X UnitSuffixes :
                  part = Pair(KeySize, Decimal(nu[1]) \o nu[2])
    IN Widen(TimesKibiPower(U64Of(nu[1]), UnitPower(nu[2])))

\* the last part of the descriptor for which Is holds, 0 when none
LastPart(parts, Is(_)) ==
    IF \E i \in 1..Len(parts) : Is(parts[i])
    THEN CHOOSE i \in 1..Len(parts) :
             Is(parts[i]) /\ \A j \in (i + 1)..Len(parts) : ~Is(parts[j])
    ELSE 0

IsSharedPair(part) == IsFlagPair(part, KeyShared)
IsHugepagesPair(part) == IsFlagPair(part, KeyHugepages)

\* the size the claim gives the descriptor: that of its (last) size pair,
\* 16 GiB when it has none
ClaimedSize(parts) ==
    LET i == LastPart(parts, IsSizePair)
    IN IF i = 0 THEN Widen(TimesKibiPower(U64Of(16), 3)) ELSE SizeOfPair(parts[i])

\* the flag the claim gives the descriptor: the token of its (last) pair
\* for the key, false when it has none
ClaimedFlag(parts, key, Is(_)) ==
    LET i == LastPart(parts, Is)
    IN i # 0 /\ \E v \in TrueTokens : parts[i] = Pair(key, v)

\* C18 (as claimed): for every descriptor made of well-formed pairs
\* parse_memory_string returns size = n * 1024^k for the size value n with
\* unit K/M/G/T (k = 1..4, either case) and n for bare digits, shared and
\* hugepages as their tokens say, and 16 GiB / false / false for the keys
\* that are not given.
C18_WellFormedDescriptorParses ==
    (parsed # NoParse /\ memoryParts # <<>>
        /\ \A i \in 1..Len(memoryParts) : WellFormedPair(memoryParts[i]))
    => /\ parsed.kind = "Ok"
       /\ Widen(parsed.config.size) = ClaimedSize(memoryParts)
       /\ parsed.config.shared = ClaimedFlag(memoryParts, KeyShared, IsSharedPair)
       /\ parsed.config.hugepages = ClaimedFlag(memoryParts, KeyHugepages, IsHugepagesPair)

\* the part is one the claim says is rejected: no '=', a size value with an
\* unrecognized unit or a non-numeric number, a shared or hugepages value
\* outside the recognized tokens
RejectedPart(part) ==
    \/ LacksEquals(part)
    \/ \E v \in BadSizeValues : part = Pair(KeySize, v)
    \/ \E v \in BadFlagValues : part \in {Pair(KeyShared, v), Pair(KeyHugepages, v)}

\* C19 (as claimed): parse_memory_string returns an error, and no
\* configuration, for every descriptor with a part that lacks '=', a size
\* value with an unrecognized unit or a non-numeric number, or a shared or
\* hugepages value outside the recognized tokens.
C19_MalformedDescriptorIsError ==
    (parsed # NoParse /\ \E i \in 1..Len(memoryParts) : RejectedPart(memoryParts[i]))
    => parsed.kind = "Err"

\* the descriptor without its i-th part
WithoutPart(parts, i) == SubSeq(parts, 1, i - 1) \o SubSeq(parts, i + 1, Len(parts))

\* C20: a pair with an unrecognized key is accepted and ignored: a
\* descriptor that has one, anywhere, parses to what the descriptor without
\* it parses to whenever that one is valid, and the pair alone parses to
\* the defaults 16 GiB, not shared, no huge pages.
C20_UnknownKeyIgnored ==
    parsed # NoParse
    => \A i \in 1..Len(memoryParts) :
          IsUnknownPair(memoryParts[i])
          => LET rest == WithoutPart(memoryParts, i)
                 without == ParseMemoryString(Join(rest), overflowChecks)
             IN IF rest = <<>>
                THEN /\ parsed.kind = "Ok"
                     /\ Widen(parsed.config.size) = Widen(TimesKibiPower(U64Of(16), 3))
                     /\ ~parsed.config.shared
                     /\ ~parsed.config.hugepages
                ELSE without.kind = "Ok" => parsed = without

\* C20 witness: "foo=bar,size=512M" was parsed, to 512 MiB
C20_Witness ==
    /\ memoryParts = <<Pair(KeyFoo, ValueBar), Pair(KeySize, Decimal(512) \o <<"M">>)>>
    /\ parsed.kind = "Ok"
    /\ Widen(parsed.config.size) = Widen(TimesKibiPower(U64Of(512), 2))

\* the start command's inputs do not pass validation: a required variable
\* is not set, a configured path does not exist, or the memory descriptor
\* has a part the grammar rejects
InvalidInputs ==
    \/ vmConfig = NoConfig
    \/ ~AllPathsExist(vmConfig)
    \/ \E i \in 1..Len(memoryParts) : RejectedPart(memoryParts[i])

\* C16: a start command whose inputs fail validation (a required input
\* missing, a referenced path absent, a malformed memory descriptor) never
\* touches the backend: no worker thread is launched, start(), shutdown()
\* and info() are never called, no request is sent, and it does not end
\* in success.
C16_ValidationFailsBeforeBackend ==
    InvalidInputs
    => /\ workers = 0
       /\ ~mgr.vmm_thread_handle
       /\ last.op \notin {"start", "shutdown", "info"}
       /\ last.events = <<>>
       /\ (pc = "exited" => exitCode \in {"failure", "killed"})

\* C16 witness: the start command wrote its marker, constructed the
\* manager, had its memory descriptor rejected and exited with an error
C16_Witness ==
    /\ pc = "exited"
    /\ exitCode = "failure"
    /\ parsed.kind = "Err"
    /\ mgr = NewManager
    /\ pidFile = PidFileOf(run)

\* C17 (as claimed): every launch specification configure() has accepted
\* has all its paths existing, a vCPU count above zero and a memory size
\* above zero.
C17_AcceptedSpecIsValid ==
    mgr.config # NoConfig
    => /\ AllPathsExist(mgr.config)
       /\ mgr.config.vcpu_count > 0
       /\ mgr.config.memory_config.size # U64Zero

\* ------------------------------------------- request channel, ordering
\* the requests the controller sends to the backend
Requests == {"VmCreate", "VmBoot", "VmInfo", "VmShutdown"}

SentRequest(ev) == \E i \in 1..Len(ev) : ev[i].call \in Requests

\* The manager as it was when the last call sent its requests: start()
\* sends them after launching the worker, shutdown() and info() send them
\* with the worker they found.
SendingManager == IF last.op = "start" THEN mgr ELSE last.pre

\* C21 (as claimed): every create, boot, query-info and shutdown request
\* the controller sends goes into the channel whose receiving end the
\* worker thread launched by start() holds.
C21_RequestsReachWorker ==
    SentRequest(last.events)
    => SendingManager.api_sender = SendingManager.worker_receiver

\* where a call appears in a call's sequence of backend and OS calls, 0 if
\* it does not
Pos(ev, what) ==
    IF Sent(ev, what) THEN CHOOSE i \in 1..Len(ev) : ev[i].call = what ELSE 0

\* how many times it appears
Times(ev, what) == Cardinality({i \in 1..Len(ev) : ev[i].call = what})

\* C22: within start(), the worker thread is launched before the create
\* request is sent; the create request has its response before a boot
\* request is sent, and a boot request is sent only after create
\* succeeded; the state becomes Running only in a start() whose boot
\* request, the last thing it does, has returned success.
C22_StartOrder ==
    /\ last.op = "start"
       => LET ev == last.events
              s == Pos(ev, "start_vmm_thread")
              c == Pos(ev, "VmCreate")
              b == Pos(ev, "VmBoot")
          IN /\ Times(ev, "start_vmm_thread") <= 1
             /\ Times(ev, "VmCreate") <= 1
             /\ Times(ev, "VmBoot") <= 1
             /\ c > 0 => (s > 0 /\ s < c /\ ev[s].ok)
             /\ b > 0 => (c > 0 /\ c < b /\ ev[c].ok)
             /\ (mgr.state = "Running" /\ last.pre.state # "Running")
                => (b > 0 /\ b = Len(ev) /\ ev[b].ok)
    /\ (mgr.state = "Running" /\ last.op # "start")
       => last.pre.state = "Running"

\* C22 witness: a start() that launched the worker, had create and boot
\* accepted in that order and ended in Running
C22_Witness ==
    /\ last.op = "start"
    /\ last.events = <<Ev("start_vmm_thread", TRUE), Ev("VmCreate", TRUE),
                       Ev("VmBoot", TRUE)>>
    /\ mgr.state = "Running"

\* a shutdown() call that tears a running VM down: called in Running or
\* Paused with a worker thread handle, and past the clone of api_evt
TearsDown ==
    /\ last.op = "shutdown"
    /\ ShutdownStateOk(last.pre)
    /\ last.pre.vmm_thread_handle
    /\ last.result = "Ok"

\* C23: in a shutdown() call that tears down a running VM the graceful
\* shutdown request, sent exactly when boot had succeeded, has returned
\* before the exit notification is written, and the exit notification is
\* written before the worker thread is joined; the write and the join are
\* made whether the graceful request succeeded or failed. No other
\* shutdown() call makes any of these calls.
C23_ShutdownOrder ==
    /\ TearsDown
       => LET ev == last.events
              g == Pos(ev, "VmShutdown")
              x == Pos(ev, "exit_evt.write")
              j == Pos(ev, "join")
          IN /\ Times(ev, "VmShutdown") <= 1
             /\ Times(ev, "exit_evt.write") = 1
             /\ Times(ev, "join") = 1
             /\ (g > 0) = last.pre.vm_booted
             /\ g > 0 => g < x
             /\ x < j
    /\ (last.op = "shutdown" /\ ~TearsDown) => last.events = <<>>

\* C23 witness: a teardown whose graceful request failed and which went on
\* to write the exit notification and join the worker
C23_Witness ==
    /\ TearsDown
    /\ last.pre.vm_booted
    /\ SubSeq(last.events, 1, 3)
         = <<Ev("VmShutdown", FALSE), Ev("exit_evt.write", TRUE),
             Ev("join", TRUE)>>
    /\ mgr.state = "Shutdown"

\* C24 (as claimed): shutdown() called on a controller whose worker thread
\* was launched but whose boot step never succeeded sends no graceful
\* shutdown request, writes the exit notification and joins the worker
\* thread, so that no worker is left behind.
C24_ShutdownCleansFailedStart ==
    (last.op = "shutdown" /\ last.pre.vmm_thread_handle /\ ~last.pre.vm_booted)
    => /\ ~Sent(last.events, "VmShutdown")
       /\ Sent(last.events, "exit_evt.write")
       /\ Sent(last.events, "join")
       /\ ~mgr.vmm_thread_handle
       /\ workers = 0

\* C25 (as claimed): the worker-thread handle is present only while the
\* state is Running or Paused; it is absent in Created, Configured,
\* Shutdown and Error.
C25_HandleOnlyWhileRunning ==
    mgr.vmm_thread_handle => mgr.state \in {"Running", "Paused"}

\* ------------------------------------------------ start command, order
\* C26 (as claimed): the start command writes its PID marker only after
\* the lifecycle controller has been constructed: while the process runs
\* and the marker holds its PID, the controller exists.
C26_MarkerAfterConstruction ==
    (ProcessAlive /\ pidFile = PidFileOf(run)) => mgr # NoManager

\* ------------------------------------------------ controller invariants
\* C27: over every sequence of configure / start / shutdown / info calls,
\* whatever succeeds or fails in the backend, the controller state is one
\* of Created, Configured, Running, Shutdown: Paused and Error are never
\* produced.
C27_OnlyFourStates ==
    mgr.state \in {"Created", "Configured", "Running", "Shutdown"}

\* C27 witness: a start() whose boot request failed has left the state
\* Configured, not Error
C27_Witness ==
    /\ last.op = "start"
    /\ SentWith(last.events, "VmBoot", FALSE)
    /\ last.result = "ApiError"
    /\ mgr.state = "Configured"

\* C28: vm_booted implies vm_created; the state is Running exactly when
\* vm_booted is true; Running implies a stored specification and a present
\* worker-thread handle; in Created and Shutdown both flags are false; and
\* start() returns success only with state Running and both flags true.
C28_FlagsFollowState ==
    /\ mgr.vm_booted => mgr.vm_created
    /\ (mgr.state = "Running") = mgr.vm_booted
    /\ mgr.state = "Running"
       => (mgr.config # NoConfig /\ mgr.vmm_thread_handle)
    /\ mgr.state \in {"Created", "Shutdown"}
       => (~mgr.vm_created /\ ~mgr.vm_booted)
    /\ (last.op = "start" /\ last.result = "Ok")
       => (mgr.state = "Running" /\ mgr.vm_created /\ mgr.vm_booted)

\* C28 witness: a start() that succeeded on a retry, after an earlier
\* start() had failed at boot and left vm_created set
C28_Witness ==
    /\ last.op = "start"
    /\ last.result = "Ok"
    /\ last.pre.vm_created
    /\ mgr.state = "Running"
    /\ mgr.vm_created /\ mgr.vm_booted
    /\ mgr.config # NoConfig /\ mgr.vmm_thread_handle

\* C29 (as claimed): at most one worker thread launched by the controller
\* is alive and unjoined at any time, and start() never stores a worker
\* handle over one whose thread has not been joined.
C29_AtMostOneWorker ==
    /\ workers <= 1
    /\ (last.op = "start" /\ SentWith(last.events, "start_vmm_thread", TRUE))
       => ~last.pre.vmm_thread_handle

\* the last stop command sent SIGTERM to the start command's process
StopSignalledInstance ==
    lastCmd.cmd = "stop" /\ run > 0 /\ lastCmd.signalled = run

C32_SizeProductNeverWraps ==
    (parsed # NoParse /\ parsed.kind = "Ok"
        /\ \E i \in 1..Len(memoryParts) : IsSizePair(memoryParts[i]))
    => Widen(parsed.config.size) = ClaimedSize(memoryParts)

\* ------------------------------------------- two instances, one marker
\* C31 (as claimed): when two start commands share the PID file, the
\* remove_file an instance does at its clean shutdown removes the file
\* only if it holds that instance's own PID, and an instance that is past
\* save_vm_pid and still running never loses its marker through a step of
\* the other instance (its shutdown or its start).
C31_MarkerBelongsToItsInstance ==
    /\ [][(pc = "remove" /\ pc' = "exited" /\ pidFile.exists /\ ~pidFile'.exists)
          => pidFile.content = run]_vars
    /\ [][(peer.pc = "remove" /\ peer'.pc = "exited" /\ pidFile.exists
             /\ ~pidFile'.exists)
          => pidFile.content = PeerPid]_vars
    /\ [][(MarkerStepsDone /\ pc' = pc /\ pidFile = PidFileOf(run))
          => pidFile' = pidFile]_vars
    /\ [][(PeerRunning /\ peer' = peer /\ pidFile = PidFileOf(PeerPid))
          => pidFile' = pidFile]_vars

====
